---- MODULE Spec2Model ----
(***************************************************************************)
(* ThermoSense: the health advisory engine (generateRecommendations of     *)
(* useMLModel, src/app.js) and a harness that calls it.                    *)
(*                                                                         *)
(* Temperatures are JavaScript numbers in the source.  Here they are       *)
(* integers counting tenths of a degree Celsius, so that 35.1, 22.5 and    *)
(* 27.5 are representable; Deg(n) is the source literal n in that unit.    *)
(* Message strings are the source's texts without their leading emoji      *)
(* (strings are ASCII here).                                               *)
(***************************************************************************)
EXTENDS Integers, Sequences, FiniteSets

VARIABLES batteryData, weatherData, deviceTemp, performanceData,
          healthData, clock, lastOp

\* The remote-advice client (src/app.updated.js): the page's three output
\* elements, the call in flight and the promise it returned.
VARIABLES domPresent, domText, sendPc, request, sendResult, sendFailed, alerted

remoteVars == <<domPresent, domText, sendPc, request, sendResult, sendFailed, alerted>>

\* ChartDisplay: the sample history, its copy in the Chart.js instance, the
\* pause switch and the number of sampling ticks so far.
VARIABLES chartData, chartInstanceData, isPaused, sampleCount

chartVars == <<chartData, chartInstanceData, isPaused, sampleCount>>

\* useBattery, useWeather and the permission handlers of ThermoSenseApp: the
\* two status fields, the stored location, the retry counter, the browser's
\* battery (API present or not, the one promise getBattery returns, the
\* BatteryManager, whether listeners are registered), the acquisition calls in
\* flight, and the app's loading flag, modal flag and notification list.
\* lastDone, newestDone and overlapped record history only: per hook the
\* result of the call that returned last, the id and the result of the call
\* that was started last (NULL until it returns), and the hooks that had two
\* calls in flight.
VARIABLES batteryStatus, weatherStatus, location, retryCount,
          batterySupported, batteryPromise, battery, listening,
          calls, nextId, isLoading, showPermissionModal, notifications,
          allowPc, allowIds, lastDone, newestDone, overlapped

hookVars == <<batteryStatus, weatherStatus, location, retryCount,
              batterySupported, batteryPromise, battery, listening,
              calls, nextId, isLoading, showPermissionModal, notifications,
              allowPc, allowIds, lastDone, newestDone, overlapped>>

\* The two intervals of ThermoSenseApp, in units of 5 seconds: the time left
\* until the performance sampler and the temperature simulator fire, whether
\* a render has left the simulator's effect to be re-run, and the snapshots
\* the simulator's callback closed over.
VARIABLES perfDue, simDue, effectPending, simClosure

timerVars == <<perfDue, simDue, effectPending, simClosure>>

\* AIAdvisory: the four fields of the scenario form and the last result.
VARIABLES customAnalysis, customResult

advisoryVars == <<customAnalysis, customResult>>

vars == <<batteryData, weatherData, deviceTemp, performanceData,
          healthData, clock, lastOp, remoteVars, chartVars, hookVars, timerVars,
          advisoryVars>>

(***************************************************************************)
(* Values                                                                  *)
(***************************************************************************)

\* null / undefined: useState(null), or an argument that was not passed.
NULL == [null |-> TRUE]

\* The empty object {} (initial performanceData).
EmptyObject == [f \in {} |-> 0]

Deg(n) == n * 10

EmptyChart == [labels |-> << >>, deviceTemps |-> << >>,
               ambientTemps |-> << >>, batteryLevels |-> << >>]

\* ChartDisplay as mounted: no samples, not paused.
ChartQuiet ==
  /\ chartData = EmptyChart
  /\ chartInstanceData = EmptyChart
  /\ isPaused = FALSE
  /\ sampleCount = 0

\* The remote-advice client before any call, on a page without the output
\* elements.
RemoteQuiet ==
  /\ domPresent = [advice |-> FALSE, alert |-> FALSE, action |-> FALSE]
  /\ domText = [advice |-> << >>, alert |-> << >>, action |-> << >>]
  /\ sendPc = "idle"
  /\ request = NULL
  /\ sendResult = [state |-> "none"]
  /\ sendFailed = FALSE
  /\ alerted = FALSE

\* The hooks as constructed, on a browser with the Battery API, before the
\* loading sequence has finished.
HooksQuiet ==
  /\ batteryStatus = "disconnected"
  /\ weatherStatus = "disconnected"
  /\ location = NULL
  /\ retryCount = 0
  /\ batterySupported = TRUE
  /\ batteryPromise = "pending"
  /\ battery = [level |-> 850, charging |-> FALSE]
  /\ listening = FALSE
  /\ calls = {}
  /\ nextId = 1
  /\ isLoading = TRUE
  /\ showPermissionModal = FALSE
  /\ notifications = << >>
  /\ allowPc = "idle"
  /\ allowIds = {}
  /\ lastDone = [h \in {"battery", "weather"} |-> NULL]
  /\ newestDone = [h \in {"battery", "weather"} |-> [id |-> 0, result |-> NULL]]
  /\ overlapped = {}

\* AIAdvisory as mounted: an empty form, no result.
AdvisoryQuiet ==
  /\ customAnalysis = [deviceTemp |-> "", ambientTemp |-> "", batteryLevel |-> "",
                       usage |-> ""]
  /\ customResult = NULL

\* Sampler period (10000 ms) and simulator period (15000 ms) in 5-second units.
PerfPeriod == 2

SimPeriod == 3

\* Both intervals as set at mount.
TimersQuiet ==
  /\ perfDue = PerfPeriod
  /\ simDue = SimPeriod
  /\ effectPending = FALSE
  /\ simClosure = [weatherData |-> weatherData, batteryData |-> batteryData,
                   performanceData |-> performanceData]

\* Number of generateRecommendations calls explored in one behaviour.
MaxClock == 3

Max(a, b) == IF a >= b THEN a ELSE b

Min(a, b) == IF a <= b THEN a ELSE b

\* JavaScript truthiness of an object-or-null value: `if (batteryData)`.
Truthy(obj) == obj # NULL

\* obj.f where f is missing evaluates to undefined; undefined is falsy and
\* every comparison of undefined with a number is false.
HasProp(obj, f) == f \in DOMAIN obj

PropTruthy(obj, f) == HasProp(obj, f) /\ obj[f] = TRUE

PropGt(obj, f, n) == HasProp(obj, f) /\ obj[f] > n

PropLt(obj, f, n) == HasProp(obj, f) /\ obj[f] < n

(***************************************************************************)
(* Recommendation messages, in the order of the source.                    *)
(***************************************************************************)
MsgCritical == "CRITICAL: Device temperature too high! Cool down immediately!"

MsgHot == "WARNING: Device running hot. Reduce intensive tasks."

MsgOptimal == "Temperature levels are optimal."

MsgChargingHot == "Charging while hot affects battery longevity."

MsgChargingGood == "Charging conditions are good."

MsgBatteryLow == "Battery low. Consider charging soon."

MsgAmbientHigh == "High ambient temperature affects device cooling."

MsgAmbientCold == "Cold weather can temporarily reduce battery capacity."

MsgHighCpu == "High CPU load detected. Monitor for heat buildup."

(***************************************************************************)
(* generateRecommendations, one operator per rule group.  A rule takes the *)
(* locals (recommendations, healthScore, alertLevel) and returns them      *)
(* updated; threw records a TypeError (a property read on null).           *)
(***************************************************************************)
\* Mutant: the recommendations array is shared between calls (declared
\* outside the function), so a call starts from the previous call's list.
InitialLocalsShared ==
  [recommendations |-> IF HasProp(healthData, "recommendations")
                       THEN healthData.recommendations ELSE << >>,
   healthScore |-> 100, alertLevel |-> "safe", threw |-> FALSE]

InitialLocals ==
  [recommendations |-> << >>, healthScore |-> 100, alertLevel |-> "safe",
   threw |-> FALSE]

Push(s, msg) == [s EXCEPT !.recommendations = Append(@, msg)]

\* Mutant: 'warning' is assigned without testing for 'safe'.
EscalateUnconditional(s) == [s EXCEPT !.alertLevel = "warning"]

Escalate(s) == IF s.alertLevel = "safe" THEN [s EXCEPT !.alertLevel = "warning"] ELSE s

Throw(s) == [s EXCEPT !.threw = TRUE]

\* Mutant: the two tiers tested in the wrong order (> 35 first).
TemperatureAnalysisSwapped(s, t) ==
  IF t > Deg(35)
  THEN [Push(s, MsgHot) EXCEPT !.healthScore = @ - 15, !.alertLevel = "warning"]
  ELSE IF t > Deg(40)
       THEN [Push(s, MsgCritical) EXCEPT !.healthScore = @ - 25, !.alertLevel = "danger"]
       ELSE Push(s, MsgOptimal)

\* Mutant: the hot tier starts at >= 40 instead of > 35.
TemperatureAnalysisLateWarning(s, t) ==
  IF t > Deg(40)
  THEN [Push(s, MsgCritical) EXCEPT !.healthScore = @ - 25, !.alertLevel = "danger"]
  ELSE IF t >= Deg(40)
       THEN [Push(s, MsgHot) EXCEPT !.healthScore = @ - 15, !.alertLevel = "warning"]
       ELSE Push(s, MsgOptimal)

TemperatureAnalysis(s, t) ==
  IF t > Deg(40)
  THEN [Push(s, MsgCritical) EXCEPT !.healthScore = @ - 25, !.alertLevel = "danger"]
  ELSE IF t > Deg(35)
       THEN [Push(s, MsgHot) EXCEPT !.healthScore = @ - 15, !.alertLevel = "warning"]
       ELSE Push(s, MsgOptimal)

\* Mutant: the charging penalty is applied whatever the device temperature.
ChargingCheckAlwaysHot(s, b, t) ==
  IF PropTruthy(b, "charging")
  THEN Escalate([Push(s, MsgChargingHot) EXCEPT !.healthScore = @ - 10])
  ELSE s

ChargingCheck(s, b, t) ==
  IF PropTruthy(b, "charging") /\ t > Deg(35)
  THEN Escalate([Push(s, MsgChargingHot) EXCEPT !.healthScore = @ - 10])
  ELSE IF PropTruthy(b, "charging")
       THEN Push(s, MsgChargingGood)
       ELSE s

\* Mutant: the low-battery rule assigns 'warning' whatever the level was.
LevelCheckOverwrite(s, b) ==
  IF PropLt(b, "level", 20)
  THEN [Push(s, MsgBatteryLow) EXCEPT !.healthScore = @ - 5, !.alertLevel = "warning"]
  ELSE s

\* Mutant: the low-battery rule forgets its penalty.
LevelCheckNoPenalty(s, b) ==
  IF PropLt(b, "level", 20)
  THEN Escalate(Push(s, MsgBatteryLow))
  ELSE s

LevelCheck(s, b) ==
  IF PropLt(b, "level", 20)
  THEN Escalate([Push(s, MsgBatteryLow) EXCEPT !.healthScore = @ - 5])
  ELSE s

\* Mutant: the snapshot is read without the null test.
BatteryGuardMissing(b) == TRUE

BatteryGuard(b) == Truthy(b)

\* Mutant: the level check runs before the charging check.
BatteryAnalysisLevelFirst(s, b, t) ==
  IF BatteryGuard(b)
  THEN IF b = NULL THEN Throw(s) ELSE ChargingCheck(LevelCheck(s, b), b, t)
  ELSE s

BatteryAnalysis(s, b, t) ==
  IF BatteryGuard(b)
  THEN IF b = NULL THEN Throw(s) ELSE LevelCheck(ChargingCheck(s, b, t), b)
  ELSE s

WeatherGuard(w) == Truthy(w)

\* Mutant: the cold branch escalates like the hot branch.
EnvironmentalChecksColdEscalates(s, w) ==
  IF PropGt(w, "temperature", Deg(30))
  THEN Escalate([Push(s, MsgAmbientHigh) EXCEPT !.healthScore = @ - 8])
  ELSE IF PropLt(w, "temperature", Deg(10))
       THEN Escalate([Push(s, MsgAmbientCold) EXCEPT !.healthScore = @ - 3])
       ELSE s

EnvironmentalChecks(s, w) ==
  IF PropGt(w, "temperature", Deg(30))
  THEN Escalate([Push(s, MsgAmbientHigh) EXCEPT !.healthScore = @ - 8])
  ELSE IF PropLt(w, "temperature", Deg(10))
       THEN [Push(s, MsgAmbientCold) EXCEPT !.healthScore = @ - 3]
       ELSE s

EnvironmentalAnalysis(s, w) ==
  IF WeatherGuard(w)
  THEN IF w = NULL THEN Throw(s) ELSE EnvironmentalChecks(s, w)
  ELSE s

PerformanceGuard(p) == Truthy(p)

PerformanceAnalysisHeavyPenalty(s, p) ==
  IF PerformanceGuard(p)
  THEN IF p = NULL
       THEN Throw(s)
       ELSE IF PropGt(p, "cpuLoad", 80)
            THEN Escalate([Push(s, MsgHighCpu) EXCEPT !.healthScore = @ - 50])
            ELSE s
  ELSE s

PerformanceAnalysis(s, p) ==
  IF PerformanceGuard(p)
  THEN IF p = NULL
       THEN Throw(s)
       ELSE IF PropGt(p, "cpuLoad", 80)
            THEN Escalate([Push(s, MsgHighCpu) EXCEPT !.healthScore = @ - 10])
            ELSE s
  ELSE s

\* Mutant: the deduction is returned instead of the remaining score.
ClampScoreDeduction(x) == x - 100

ClampScore(x) == Max(0, Min(100, x))

\* The locals after each rule group, for given arguments.
AfterTemperature(b, w, t, p) == TemperatureAnalysis(InitialLocals, t)

AfterBattery(b, w, t, p) == BatteryAnalysis(AfterTemperature(b, w, t, p), b, t)

AfterWeather(b, w, t, p) == EnvironmentalAnalysis(AfterBattery(b, w, t, p), w)

AfterPerformance(b, w, t, p) == PerformanceAnalysis(AfterWeather(b, w, t, p), p)

\* The returned object; a call that threw returns nothing (threw = TRUE).
generateRecommendations(b, w, t, p, now) ==
  LET s == AfterPerformance(b, w, t, p) IN
  IF s.threw
  THEN [threw |-> TRUE]
  ELSE [healthScore |-> ClampScore(s.healthScore),
        recommendations |-> s.recommendations,
        alertLevel |-> s.alertLevel,
        lastUpdated |-> now,
        threw |-> FALSE]

(***************************************************************************)
(* Device temperature simulation (the setInterval callback of              *)
(* ThermoSenseApp).  baseTemp is computed in hundredths of a degree, which *)
(* is exact for temperatures in tenths and integer cpuLoad:                *)
(*   (temperature - 20) * 0.3  is  (temperature in tenths - Deg(20)) * 3   *)
(*   (cpuLoad / 100) * 8       is  cpuLoad * 8                             *)
(* The jitter (Math.random() - 0.5) * 2 is any real in [-1, 1); the model  *)
(* takes the jitters that put the result on a whole tenth.                 *)
(***************************************************************************)
BaseTemp(w, b, p) ==
  Deg(25) * 10
  + (IF Truthy(w) THEN (w.temperature - Deg(20)) * 3 ELSE 0)
  + (IF PropTruthy(b, "charging") THEN Deg(3) * 10 ELSE 0)
  + (IF HasProp(p, "cpuLoad") /\ p.cpuLoad # 0 THEN p.cpuLoad * 8 ELSE 0)

Jitters(base) == {j \in -100..99 : (base + j) % 10 = 0}

\* The least, the greatest and the smallest-magnitude jitter.
JitterSamples(base) ==
  LET J == Jitters(base) IN
  {j \in J : \/ \A k \in J : j <= k
             \/ \A k \in J : j >= k
             \/ (j >= 0 /\ j < 10)}

\* Mutant: only the upper limit is applied.
ClampDeviceTempUpperOnly(x) == Min(Deg(50), x)

ClampDeviceTemp(x) == Max(Deg(20), Min(Deg(50), x))

\* The values setDeviceTemp can receive for the given snapshots.
SimulatedTemps(w, b, p) ==
  {ClampDeviceTemp((BaseTemp(w, b, p) + j) \div 10) : j \in JitterSamples(BaseTemp(w, b, p))}

(***************************************************************************)
(* Argument domains: every side of every threshold, the thresholds         *)
(* themselves, and absent snapshots.                                       *)
(***************************************************************************)
BatteryLevels == {15, 19, 20, 85}

BatterySnapshots ==
  {NULL} \cup [level : BatteryLevels, charging : BOOLEAN]

WeatherTemps == {Deg(5), 99, Deg(10), 225, Deg(30), 301, Deg(32), Deg(70)}

WeatherSnapshots == {NULL} \cup [temperature : WeatherTemps]

DeviceTemps == {Deg(20), Deg(25), 275, Deg(35), 351, Deg(40), 401, Deg(42), Deg(50)}

CpuLoads == {15, 55, 80, 81, 85}

PerformanceSnapshots == {NULL, EmptyObject} \cup [cpuLoad : CpuLoads]

(***************************************************************************)
(* Harness: the arguments are chosen, the function is called; then single  *)
(* penalty-triggering conditions are switched on and it is called again.   *)
(***************************************************************************)
Init ==
  /\ batteryData \in BatterySnapshots
  /\ weatherData \in WeatherSnapshots
  /\ deviceTemp \in DeviceTemps
  /\ performanceData \in PerformanceSnapshots
  /\ healthData = NULL
  /\ clock = 0
  /\ lastOp = "none"
  /\ RemoteQuiet
  /\ ChartQuiet
  /\ HooksQuiet
  /\ TimersQuiet
  /\ AdvisoryQuiet

\* Evaluate the engine on the (primed) arguments at the next clock reading.
Recompute ==
  /\ clock < MaxClock
  /\ clock' = clock + 1
  /\ healthData' = generateRecommendations(batteryData', weatherData',
                                           deviceTemp', performanceData', clock')
  /\ UNCHANGED <<remoteVars, chartVars, hookVars, timerVars, advisoryVars>>

Assess ==
  /\ healthData = NULL
  /\ UNCHANGED <<batteryData, weatherData, deviceTemp, performanceData>>
  /\ Recompute
  /\ lastOp' = "assess"

\* charging := true (an absent battery appears charging with a harmless level)
AddCharging ==
  /\ healthData # NULL
  /\ ~PropTruthy(batteryData, "charging")
  /\ batteryData' = IF batteryData = NULL
                    THEN [level |-> 85, charging |-> TRUE]
                    ELSE [batteryData EXCEPT !.charging = TRUE]
  /\ UNCHANGED <<weatherData, deviceTemp, performanceData>>
  /\ Recompute
  /\ lastOp' = "addCharging"

\* level drops below 20
AddLowBattery ==
  /\ healthData # NULL
  /\ ~PropLt(batteryData, "level", 20)
  /\ \E l \in {x \in BatteryLevels : x < 20} :
       batteryData' = IF batteryData = NULL
                      THEN [level |-> l, charging |-> FALSE]
                      ELSE [batteryData EXCEPT !.level = l]
  /\ UNCHANGED <<weatherData, deviceTemp, performanceData>>
  /\ Recompute
  /\ lastOp' = "addLowBattery"

\* ambient temperature rises above 30 from a value that triggered nothing
AddAmbientHot ==
  /\ healthData # NULL
  /\ ~PropGt(weatherData, "temperature", Deg(30))
  /\ ~PropLt(weatherData, "temperature", Deg(10))
  /\ \E a \in {x \in WeatherTemps : x > Deg(30)} :
       weatherData' = [temperature |-> a]
  /\ UNCHANGED <<batteryData, deviceTemp, performanceData>>
  /\ Recompute
  /\ lastOp' = "addAmbientHot"

\* ambient temperature falls below 10 from a value that triggered nothing
AddAmbientCold ==
  /\ healthData # NULL
  /\ ~PropGt(weatherData, "temperature", Deg(30))
  /\ ~PropLt(weatherData, "temperature", Deg(10))
  /\ \E a \in {x \in WeatherTemps : x < Deg(10)} :
       weatherData' = [temperature |-> a]
  /\ UNCHANGED <<batteryData, deviceTemp, performanceData>>
  /\ Recompute
  /\ lastOp' = "addAmbientCold"

\* The same arguments again, at a later time.
Reassess ==
  /\ healthData # NULL
  /\ UNCHANGED <<batteryData, weatherData, deviceTemp, performanceData>>
  /\ Recompute
  /\ lastOp' = "reassess"

\* The simulation callback fires on the current snapshots (performanceData
\* is an object in the app, never null) and the assessment follows.
SimulateDeviceTemp ==
  /\ healthData # NULL
  /\ performanceData # NULL
  /\ deviceTemp' \in SimulatedTemps(weatherData, batteryData, performanceData)
  /\ UNCHANGED <<batteryData, weatherData, performanceData>>
  /\ Recompute
  /\ lastOp' = "simulate"

\* cpuLoad rises above 80
AddHighCpu ==
  /\ healthData # NULL
  /\ ~PropGt(performanceData, "cpuLoad", 80)
  /\ \E c \in {x \in CpuLoads : x > 80} :
       performanceData' = [cpuLoad |-> c]
  /\ UNCHANGED <<batteryData, weatherData, deviceTemp>>
  /\ Recompute
  /\ lastOp' = "addHighCpu"

Next ==
  \/ Assess
  \/ AddCharging
  \/ AddLowBattery
  \/ AddAmbientHot
  \/ AddAmbientCold
  \/ AddHighCpu
  \/ Reassess
  \/ SimulateDeviceTemp

Spec == Init /\ [][Next]_vars

\* The call has returned.
Returned == healthData # NULL /\ ~healthData.threw

Contains(seq, msg) == \E i \in 1..Len(seq) : seq[i] = msg

(***************************************************************************)
(* Claims                                                                  *)
(***************************************************************************)

\* C1: whatever the battery, weather and performance snapshots (present or
\* absent) and whatever deviceTemp, the returned healthScore is in 0..100.
C1_ScoreClamped ==
  Returned => healthData.healthScore >= 0 /\ healthData.healthScore <= 100

\* Every penalty stacked in one call.
C1_Witness ==
  /\ Returned
  /\ Len(healthData.recommendations) = 5
  /\ healthData.healthScore < 50

\* C2: deviceTemp > 40 gives alertLevel 'danger' and healthScore <= 75,
\* whatever the other snapshots are.
C2_DangerAbove40 ==
  (Returned /\ deviceTemp > Deg(40)) =>
    healthData.alertLevel = "danger" /\ healthData.healthScore <= 75

C2_Witness ==
  /\ Returned
  /\ deviceTemp = 401
  /\ healthData.healthScore = 75
  /\ batteryData # NULL /\ weatherData # NULL

\* C3: 35 < deviceTemp <= 40 gives an alertLevel that is not 'safe' and a
\* recommendations list without the 'optimal' message.
C3_WarningBand ==
  (Returned /\ deviceTemp > Deg(35) /\ deviceTemp <= Deg(40)) =>
    /\ healthData.alertLevel \in {"warning", "danger"}
    /\ ~Contains(healthData.recommendations, MsgOptimal)

C3_Witness ==
  /\ Returned
  /\ deviceTemp = Deg(40)
  /\ healthData.alertLevel = "warning"

\* No penalty-triggering condition holds and deviceTemp <= 35.
NoPenaltyInputs ==
  /\ deviceTemp <= Deg(35)
  /\ batteryData = NULL \/ batteryData.level >= 20
  /\ weatherData = NULL
       \/ (weatherData.temperature >= Deg(10) /\ weatherData.temperature <= Deg(30))
  /\ ~HasProp(performanceData, "cpuLoad") \/ performanceData.cpuLoad <= 80

\* C4 as stated: with deviceTemp <= 35 and no penalty-triggering condition
\* (battery charging or not) the result is 'safe', 100 and exactly one
\* recommendation, the 'optimal' message.
C4_Original ==
  (Returned /\ NoPenaltyInputs) =>
    /\ healthData.alertLevel = "safe"
    /\ healthData.healthScore = 100
    /\ healthData.recommendations = <<MsgOptimal>>

\* C4 amended: with deviceTemp <= 35 and no penalty-triggering condition the
\* result is 'safe' and 100; the recommendations are the 'optimal' message
\* alone when the battery is absent or not charging, and the 'optimal'
\* message followed by 'Charging conditions are good.' when it is charging.
C4_NoPenalty ==
  (Returned /\ NoPenaltyInputs) =>
    /\ healthData.alertLevel = "safe"
    /\ healthData.healthScore = 100
    /\ healthData.recommendations =
         IF batteryData # NULL /\ batteryData.charging
         THEN <<MsgOptimal, MsgChargingGood>>
         ELSE <<MsgOptimal>>

C4_Witness ==
  /\ Returned
  /\ NoPenaltyInputs
  /\ batteryData # NULL /\ batteryData.charging
  /\ Len(healthData.recommendations) = 2

\* The rule group a message belongs to, in the order of the source.
RuleRank(msg) ==
  CASE msg \in {MsgCritical, MsgHot, MsgOptimal} -> 1
    [] msg \in {MsgChargingHot, MsgChargingGood} -> 2
    [] msg = MsgBatteryLow -> 3
    [] msg \in {MsgAmbientHigh, MsgAmbientCold} -> 4
    [] msg = MsgHighCpu -> 5
    [] OTHER -> 0

BoolToNat(c) == IF c THEN 1 ELSE 0

\* The conditions of the rules, stated on the arguments.
ChargingFires == batteryData # NULL /\ batteryData.charging

ChargingHotFires == ChargingFires /\ deviceTemp > Deg(35)

LowBatteryFires == batteryData # NULL /\ batteryData.level < 20

AmbientHotFires == weatherData # NULL /\ weatherData.temperature > Deg(30)

AmbientColdFires == weatherData # NULL /\ weatherData.temperature < Deg(10)

HighCpuFires == HasProp(performanceData, "cpuLoad") /\ performanceData.cpuLoad > 80

C5_ExampleInputs ==
  /\ batteryData = [level |-> 15, charging |-> TRUE]
  /\ weatherData = [temperature |-> Deg(32)]
  /\ deviceTemp = Deg(42)
  /\ performanceData = [cpuLoad |-> 85]

\* C5: the recommendations hold one message per fired rule, in the rule
\* order device temperature, charging, low battery, ambient, CPU; for
\* battery {15, charging}, ambient 32, deviceTemp 42, cpuLoad 85 the result is
\* 'danger', 42 and the five messages critical-temp, charging-while-hot,
\* low-battery, high-ambient, high-cpu.
C5_RuleOrder ==
  Returned =>
    LET r == healthData.recommendations IN
    /\ \A i, j \in 1..Len(r) : i < j => RuleRank(r[i]) < RuleRank(r[j])
    /\ \A i \in 1..Len(r) : RuleRank(r[i]) > 0
    /\ Len(r) = 1 + BoolToNat(ChargingFires) + BoolToNat(LowBatteryFires)
                  + BoolToNat(AmbientHotFires \/ AmbientColdFires)
                  + BoolToNat(HighCpuFires)
    /\ C5_ExampleInputs =>
         /\ healthData.alertLevel = "danger"
         /\ healthData.healthScore = 42
         /\ r = <<MsgCritical, MsgChargingHot, MsgBatteryLow, MsgAmbientHigh, MsgHighCpu>>

C5_Witness == Returned /\ C5_ExampleInputs /\ lastOp = "assess"

C6_AllAbsent ==
  /\ batteryData = NULL
  /\ weatherData = NULL
  /\ performanceData = NULL

\* C6: the call never throws; an absent battery, weather or performance
\* snapshot (or a performance object without cpuLoad) contributes no message
\* and no penalty; with all three absent and deviceTemp 25 the result is
\* 'safe', 100 and the single 'optimal' message.
C6_Total ==
  healthData # NULL =>
    /\ ~healthData.threw
    /\ batteryData = NULL =>
         /\ \A i \in 1..Len(healthData.recommendations) :
              RuleRank(healthData.recommendations[i]) \notin {2, 3}
         /\ AfterBattery(batteryData, weatherData, deviceTemp, performanceData)
              = AfterTemperature(batteryData, weatherData, deviceTemp, performanceData)
    /\ weatherData = NULL =>
         /\ \A i \in 1..Len(healthData.recommendations) :
              RuleRank(healthData.recommendations[i]) # 4
         /\ AfterWeather(batteryData, weatherData, deviceTemp, performanceData)
              = AfterBattery(batteryData, weatherData, deviceTemp, performanceData)
    /\ performanceData \in {NULL, EmptyObject} =>
         /\ \A i \in 1..Len(healthData.recommendations) :
              RuleRank(healthData.recommendations[i]) # 5
         /\ AfterPerformance(batteryData, weatherData, deviceTemp, performanceData)
              = AfterWeather(batteryData, weatherData, deviceTemp, performanceData)
    /\ (C6_AllAbsent /\ deviceTemp = Deg(25)) =>
         /\ healthData.alertLevel = "safe"
         /\ healthData.healthScore = 100
         /\ healthData.recommendations = <<MsgOptimal>>

C6_Witness ==
  /\ healthData # NULL
  /\ C6_AllAbsent
  /\ deviceTemp = Deg(25)
  /\ healthData.lastUpdated = 1

Sev(a) == CASE a = "safe" -> 0 [] a = "warning" -> 1 [] a = "danger" -> 2

\* C7: alertLevel is 'danger' exactly when deviceTemp > 40; only the
\* device-temperature rule sets 'danger', and the level after each later
\* rule group is at least as severe as before it.
C7_DangerIffAbove40 ==
  Returned =>
    LET a1 == AfterTemperature(batteryData, weatherData, deviceTemp, performanceData).alertLevel
        a2 == AfterBattery(batteryData, weatherData, deviceTemp, performanceData).alertLevel
        a3 == AfterWeather(batteryData, weatherData, deviceTemp, performanceData).alertLevel
        a4 == AfterPerformance(batteryData, weatherData, deviceTemp, performanceData).alertLevel
    IN
    /\ (healthData.alertLevel = "danger") <=> (deviceTemp > Deg(40))
    /\ healthData.alertLevel = a4
    /\ Sev(a1) <= Sev(a2) /\ Sev(a2) <= Sev(a3) /\ Sev(a3) <= Sev(a4)
    /\ \A a \in {a2, a3, a4} : a = "danger" => a1 = "danger"

\* 'danger' kept although the battery, weather and CPU rules all fired.
C7_Witness ==
  /\ Returned
  /\ healthData.alertLevel = "danger"
  /\ ChargingHotFires /\ LowBatteryFires /\ AmbientHotFires /\ HighCpuFires
  /\ deviceTemp = 401

AddOps == {"addCharging", "addLowBattery", "addAmbientHot", "addAmbientCold", "addHighCpu"}

\* C8: switching one more penalty-triggering condition on, the other
\* arguments unchanged, never gives a less severe alertLevel and never a
\* higher healthScore than before.
C8_Monotone ==
  [][(lastOp' \in AddOps /\ Returned /\ Returned') =>
       /\ Sev(healthData'.alertLevel) >= Sev(healthData.alertLevel)
       /\ healthData'.healthScore <= healthData.healthScore]_vars

\* Charging while hot was added to a case that was already 'danger'.
C8_Witness ==
  /\ Returned
  /\ lastOp = "addCharging"
  /\ deviceTemp > Deg(40)
  /\ healthData.alertLevel = "danger"
  /\ Contains(healthData.recommendations, MsgChargingHot)

PenaltySum ==
  (IF deviceTemp > Deg(40) THEN 25 ELSE IF deviceTemp > Deg(35) THEN 15 ELSE 0)
  + (IF ChargingHotFires THEN 10 ELSE 0)
  + (IF LowBatteryFires THEN 5 ELSE 0)
  + (IF AmbientHotFires THEN 8 ELSE IF AmbientColdFires THEN 3 ELSE 0)
  + (IF HighCpuFires THEN 10 ELSE 0)

WarningTriggers ==
  BoolToNat(deviceTemp > Deg(35)) + BoolToNat(ChargingHotFires)
  + BoolToNat(LowBatteryFires) + BoolToNat(AmbientHotFires)
  + BoolToNat(HighCpuFires)

\* C9: healthScore is 100 minus the sum of the penalties of the rules that
\* fired, and with deviceTemp <= 40 any number (one or more) of
\* warning-triggering rules gives exactly 'warning'.
C9_PenaltiesStack ==
  Returned =>
    /\ healthData.healthScore = 100 - PenaltySum
    /\ (deviceTemp <= Deg(40) /\ WarningTriggers >= 1) =>
         healthData.alertLevel = "warning"

C9_Witness ==
  /\ Returned
  /\ deviceTemp <= Deg(40)
  /\ WarningTriggers = 5
  /\ healthData.healthScore = 52

C10_ColdOnly ==
  /\ AmbientColdFires
  /\ deviceTemp <= Deg(35)
  /\ ~LowBatteryFires
  /\ ~HighCpuFires

\* C10: ambient > 30 subtracts 8 and turns 'safe' into 'warning'; ambient
\* < 10 subtracts 3 and leaves alertLevel as it was (cold as the only
\* condition: 'safe', 97); never both messages; nothing for 10..30.
C10_WeatherRule ==
  Returned =>
    LET before == AfterBattery(batteryData, weatherData, deviceTemp, performanceData)
        after == AfterWeather(batteryData, weatherData, deviceTemp, performanceData)
        r == healthData.recommendations
    IN
    /\ AmbientHotFires =>
         /\ after.healthScore = before.healthScore - 8
         /\ after.alertLevel = IF before.alertLevel = "safe" THEN "warning"
                                ELSE before.alertLevel
         /\ Contains(r, MsgAmbientHigh)
    /\ AmbientColdFires =>
         /\ after.healthScore = before.healthScore - 3
         /\ after.alertLevel = before.alertLevel
         /\ Contains(r, MsgAmbientCold)
    /\ ~(Contains(r, MsgAmbientHigh) /\ Contains(r, MsgAmbientCold))
    /\ (weatherData # NULL /\ ~AmbientHotFires /\ ~AmbientColdFires) =>
         /\ after = before
         /\ ~Contains(r, MsgAmbientHigh) /\ ~Contains(r, MsgAmbientCold)
    /\ C10_ColdOnly =>
         healthData.alertLevel = "safe" /\ healthData.healthScore = 97

C10_Witness ==
  /\ Returned
  /\ C10_ColdOnly
  /\ weatherData.temperature = 99
  /\ healthData.healthScore = 97

C20_DeviceTempRange == deviceTemp >= Deg(20) /\ deviceTemp <= Deg(50)

\* The callback wrote a value that the lower limit cut off.
C20_Witness ==
  /\ lastOp = "simulate"
  /\ deviceTemp = Deg(20)
  /\ weatherData # NULL /\ weatherData.temperature = Deg(5)
  /\ \E j \in Jitters(BaseTemp(weatherData, batteryData, performanceData)) :
       (BaseTemp(weatherData, batteryData, performanceData) + j) \div 10 < Deg(20)
(***************************************************************************)
(* The remote-advice client: sendSensorData and window.submitSensorData of *)
(* src/app.updated.js.  A text is a sequence of string pieces, so that     *)
(* `Alert Level: ${x}` is <<"Alert Level: ", x>>.  One call is in flight   *)
(* at a time.                                                              *)
(***************************************************************************)
engineVars == <<batteryData, weatherData, deviceTemp, performanceData, healthData, clock>>

\* Everything outside the remote-advice client.
outsideRemote == <<engineVars, chartVars, hookVars, timerVars, advisoryVars>>

\* The dashboard before any data has arrived; the engine is not called.
EngineQuiet ==
  /\ batteryData = NULL
  /\ weatherData = NULL
  /\ deviceTemp = 275
  /\ performanceData = EmptyObject
  /\ healthData = NULL
  /\ clock = 0

FallbackTip == "Unable to fetch advice. Please try again later."

FallbackAdvice ==
  [predicted_health_impact |-> NULL,
   alert_level |-> "error",
   natural_language_tip |-> FallbackTip,
   optional_action |-> NULL]

\* Response bodies of the endpoint; NULL is an empty body.
Payloads ==
  [predicted_health_impact : {NULL, [num |-> 12]},
   alert_level : {"safe", "danger"},
   natural_language_tip : {"Keep the device in the shade."},
   optional_action : {NULL, [str |-> "Unplug the charger"]}]
  \cup {NULL}

\* String.prototype.toLowerCase on the sample device states.
ToLowerCase(str) ==
  CASE str = "Charging" -> "charging"
    [] str = "IDLE" -> "idle"
    [] OTHER -> str

\* A value is a string when it is not null, undefined or a number.
NotAString == [notAString |-> TRUE]

DeviceStates == {"Charging", "discharging", "IDLE"}

\* parseFloat results: a number (tenths of a degree) or NaN.
NaN == [nan |-> TRUE]

IsNaN(x) == HasProp(x, "nan")

SensorTemps == {[num |-> 305], [num |-> 450]}

\* if (el) el.innerText = text, for each of the three elements.
SetTexts(advice, alert, action) ==
  [advice |-> IF domPresent.advice THEN advice ELSE domText.advice,
   alert |-> IF domPresent.alert THEN alert ELSE domText.alert,
   action |-> IF domPresent.action THEN action ELSE domText.action]

\* result.optional_action || ""
OrEmpty(x) == IF x = NULL THEN << >> ELSE <<x.str>>

\* Mutant: the catch block rethrows after updating the page.
CatchBlockRethrows ==
  /\ domText' = SetTexts(<<FallbackTip>>, <<"Alert Level: ", "error">>, << >>)
  /\ sendResult' = [state |-> "rejected"]
  /\ sendFailed' = TRUE
  /\ sendPc' = "done"

\* catch (error) { ... return fallback }
CatchBlock ==
  /\ domText' = SetTexts(<<FallbackTip>>, <<"Alert Level: ", "error">>, << >>)
  /\ sendResult' = [state |-> "resolved", value |-> FallbackAdvice]
  /\ sendFailed' = TRUE
  /\ sendPc' = "done"

\* Reading a property of a null result throws; it is read for the first
\* element that exists, before anything is written.
UpdateThrows(result) ==
  result = NULL /\ (domPresent.advice \/ domPresent.alert \/ domPresent.action)

\* The rest of the try block, after `await axios.post(...)` resolved.
AfterResponse(result) ==
  IF UpdateThrows(result)
  THEN CatchBlock
  ELSE /\ domText' = IF result = NULL THEN domText
                     ELSE SetTexts(<<result.natural_language_tip>>,
                                   <<"Alert Level: ", result.alert_level>>,
                                   OrEmpty(result.optional_action))
       /\ sendResult' = [state |-> "resolved", value |-> result]
       /\ sendFailed' = FALSE
       /\ sendPc' = "done"

\* sendSensorData up to its await: deviceState.toLowerCase() throws on a
\* value that is not a string, which the catch block handles at once.
SendCall(batteryTemp, ambientTemp, deviceState) ==
  IF deviceState = NotAString
  THEN /\ CatchBlock
       /\ request' = NULL
  ELSE /\ request' = [battery_temp |-> batteryTemp,
                      ambient_temp |-> ambientTemp,
                      device_state |-> [str |-> ToLowerCase(deviceState.str)]]
       /\ sendPc' = "posting"
       /\ sendResult' = [state |-> "pending"]
       /\ sendFailed' = FALSE
       /\ UNCHANGED domText

DeviceStateArgs == {[str |-> d] : d \in DeviceStates} \cup {NotAString}

\* A direct call of the exported function.
SendSensorData ==
  /\ sendPc # "posting"
  /\ \E bt \in SensorTemps, at \in SensorTemps, ds \in DeviceStateArgs :
       SendCall(bt, at, ds)
  /\ UNCHANGED <<domPresent, alerted, outsideRemote>>
  /\ lastOp' = "sendSensorData"

\* window.submitSensorData: the form fields are validated, then sent.
SubmitSensorData ==
  /\ sendPc # "posting"
  /\ \E bt \in SensorTemps \cup {NaN}, at \in SensorTemps \cup {NaN},
        ds \in DeviceStates \cup {""} :
       IF IsNaN(bt) \/ IsNaN(at) \/ ds = ""
       THEN /\ alerted' = TRUE
            /\ UNCHANGED <<domText, sendPc, request, sendResult, sendFailed>>
       ELSE /\ alerted' = FALSE
            /\ SendCall(bt, at, [str |-> ds])
  /\ UNCHANGED <<domPresent, outsideRemote>>
  /\ lastOp' = "submitSensorData"

\* The endpoint answered 2xx.
PostResolves ==
  /\ sendPc = "posting"
  /\ \E data \in Payloads : AfterResponse(data)
  /\ UNCHANGED <<domPresent, request, alerted, outsideRemote>>
  /\ lastOp' = "postResolves"

\* Network error, timeout or a non-2xx status: axios rejects.
PostRejects ==
  /\ sendPc = "posting"
  /\ CatchBlock
  /\ UNCHANGED <<domPresent, request, alerted, outsideRemote>>
  /\ lastOp' = "postRejects"

InitRemote ==
  /\ EngineQuiet
  /\ lastOp = "none"
  /\ domPresent \in [advice : BOOLEAN, alert : BOOLEAN, action : BOOLEAN]
  /\ domText = [advice |-> << >>, alert |-> << >>, action |-> << >>]
  /\ sendPc = "idle"
  /\ request = NULL
  /\ sendResult = [state |-> "none"]
  /\ sendFailed = FALSE
  /\ alerted = FALSE
  /\ ChartQuiet
  /\ HooksQuiet
  /\ TimersQuiet
  /\ AdvisoryQuiet

NextRemote ==
  \/ SendSensorData
  \/ SubmitSensorData
  \/ PostResolves
  \/ PostRejects

SpecRemote == InitRemote /\ [][NextRemote]_vars

\* C12: the promise of sendSensorData is never rejected, and whenever the
\* HTTP call failed or something in the request path threw, it is resolved
\* with the fixed fallback (alert_level 'error', null impact, null action,
\* the fixed tip).
C12_NeverRejects ==
  /\ sendResult.state # "rejected"
  /\ (sendPc = "done" /\ sendFailed) =>
       /\ sendResult.state = "resolved"
       /\ sendResult.value.alert_level = "error"
       /\ sendResult.value.predicted_health_impact = NULL
       /\ sendResult.value.optional_action = NULL
       /\ sendResult.value.natural_language_tip = FallbackTip
  /\ lastOp = "postRejects" => sendFailed

\* The request failed after it was posted.
C12_Witness ==
  /\ lastOp = "postRejects"
  /\ sendPc = "done"
  /\ request # NULL
  /\ sendResult.state = "resolved"
\* The text some element of the page shows contains the piece.
Shown(piece) ==
  \E el \in {"advice", "alert", "action"} :
    \E i \in 1..Len(domText[el]) : domText[el][i] = piece

\* A number as the page would print it.
ImpactText(x) == CASE x.num = 12 -> "12"

\* C23: after a successful call, with the three elements on the page,
\* sendSensorData resolves to the response payload and the page shows the
\* four returned fields: the tip, the alert level, the predicted health
\* impact and the optional action (empty text when it is absent).
C23_SurfacesFourFields ==
  (/\ lastOp = "postResolves"
   /\ ~sendFailed
   /\ domPresent.advice /\ domPresent.alert /\ domPresent.action) =>
    LET result == sendResult.value
    IN /\ sendResult.state = "resolved"
       /\ result \in Payloads
       /\ Shown(result.natural_language_tip)
       /\ Shown(result.alert_level)
       /\ domText.action = OrEmpty(result.optional_action)
       /\ result.predicted_health_impact # NULL =>
            Shown(ImpactText(result.predicted_health_impact))
(***************************************************************************)
(* ChartDisplay: the sampling interval callback and the chart controls.    *)
(* A time label is the number of the minute in which the sample was taken  *)
(* (two 30-second ticks per minute, 1440 minutes per day).                 *)
(***************************************************************************)

\* Sampling ticks explored in one behaviour.
MaxSamples == 53

MaxHistory == 50

\* x || d for a number x: 0 (like undefined) gives the default.
OrDefault(x, d) == IF x = 0 THEN d ELSE x

TimeLabel(n) == (n \div 2) % 1440

\* The values appended by one tick.
Sample(n) ==
  [label |-> TimeLabel(n),
   deviceTemp |-> OrDefault(deviceTemp, Deg(25)),
   ambientTemp |-> IF weatherData = NULL THEN Deg(22)
                   ELSE OrDefault(weatherData.temperature, Deg(22)),
   batteryLevel |-> IF batteryData = NULL THEN 75
                    ELSE OrDefault(batteryData.level, 75)]

Shift(seq) == SubSeq(seq, 2, Len(seq))

\* Mutant: the deviceTemps series is not shifted with the others.
AppendSampleForgetsSeries(prev, smp) ==
  LET newData == [labels |-> Append(prev.labels, smp.label),
                  deviceTemps |-> Append(prev.deviceTemps, smp.deviceTemp),
                  ambientTemps |-> Append(prev.ambientTemps, smp.ambientTemp),
                  batteryLevels |-> Append(prev.batteryLevels, smp.batteryLevel)]
  IN IF Len(newData.labels) > MaxHistory
     THEN [labels |-> Shift(newData.labels),
           deviceTemps |-> newData.deviceTemps,
           ambientTemps |-> Shift(newData.ambientTemps),
           batteryLevels |-> Shift(newData.batteryLevels)]
     ELSE newData

\* The updater passed to setChartData.
AppendSample(prev, smp) ==
  LET newData == [labels |-> Append(prev.labels, smp.label),
                  deviceTemps |-> Append(prev.deviceTemps, smp.deviceTemp),
                  ambientTemps |-> Append(prev.ambientTemps, smp.ambientTemp),
                  batteryLevels |-> Append(prev.batteryLevels, smp.batteryLevel)]
  IN IF Len(newData.labels) > MaxHistory
     THEN [labels |-> Shift(newData.labels),
           deviceTemps |-> Shift(newData.deviceTemps),
           ambientTemps |-> Shift(newData.ambientTemps),
           batteryLevels |-> Shift(newData.batteryLevels)]
     ELSE newData

outsideChart == <<engineVars, remoteVars, hookVars, timerVars, advisoryVars>>

\* The 30-second interval fires; it exists only while not paused.
ChartSample ==
  /\ ~isPaused
  /\ sampleCount < MaxSamples
  /\ sampleCount' = sampleCount + 1
  /\ chartData' = AppendSample(chartData, Sample(sampleCount))
  /\ chartInstanceData' = chartData'
  /\ UNCHANGED <<isPaused, outsideChart>>
  /\ lastOp' = "chartSample"

ResetChart ==
  /\ chartData' = EmptyChart
  /\ chartInstanceData' = EmptyChart
  /\ UNCHANGED <<isPaused, sampleCount, outsideChart>>
  /\ lastOp' = "resetChart"

TogglePause ==
  /\ isPaused' = ~isPaused
  /\ UNCHANGED <<chartData, chartInstanceData, sampleCount, outsideChart>>
  /\ lastOp' = "togglePause"

\* The monitoring tab is opened with whatever snapshots the app holds.
InitChart ==
  /\ batteryData \in {NULL, [level |-> 85, charging |-> FALSE], [level |-> 0, charging |-> TRUE]}
  /\ weatherData \in {NULL, [temperature |-> 225], [temperature |-> 0]}
  /\ deviceTemp = 275
  /\ performanceData = EmptyObject
  /\ healthData = generateRecommendations(batteryData, weatherData, deviceTemp,
                                          performanceData, 0)
  /\ clock = 0
  /\ lastOp = "none"
  /\ RemoteQuiet
  /\ ChartQuiet
  /\ HooksQuiet
  /\ TimersQuiet
  /\ AdvisoryQuiet

NextChart ==
  \/ ChartSample
  \/ ResetChart
  \/ TogglePause

SpecChart == InitChart /\ [][NextChart]_vars

SeriesLengths ==
  {Len(chartData.labels), Len(chartData.deviceTemps),
   Len(chartData.ambientTemps), Len(chartData.batteryLevels)}

\* C17: after any sequence of sample ticks and Reset Chart clicks the
\* history holds at most 50 samples and its four series have the same
\* length; a tick on a full history drops the oldest sample of each series
\* and appends the new one.
C17_BoundedHistory ==
  /\ [](Cardinality(SeriesLengths) = 1 /\ Len(chartData.labels) <= MaxHistory)
  /\ [][(lastOp' = "chartSample" /\ Len(chartData.labels) = MaxHistory) =>
          /\ chartData'.labels = Append(Shift(chartData.labels), TimeLabel(sampleCount))
          /\ chartData'.deviceTemps = Append(Shift(chartData.deviceTemps), chartData'.deviceTemps[MaxHistory])
          /\ chartData'.ambientTemps = Append(Shift(chartData.ambientTemps), chartData'.ambientTemps[MaxHistory])
          /\ chartData'.batteryLevels = Append(Shift(chartData.batteryLevels), chartData'.batteryLevels[MaxHistory])
          /\ Len(chartData'.deviceTemps) = MaxHistory]_vars

\* A tick arrived on a full history: the oldest label is gone.
C17_Witness ==
  /\ lastOp = "chartSample"
  /\ Len(chartData.labels) = MaxHistory
  /\ sampleCount > MaxHistory
  /\ chartData.labels[1] > 0

(***************************************************************************)
(* Data acquisition: useBattery, useWeather and the permission handlers of *)
(* ThermoSenseApp.  A snapshot keeps the fields the app reads (level,      *)
(* charging, simulated; temperature, humidity, windSpeed, weatherCode,     *)
(* uvIndex, fallback); chargingTime, dischargingTime and lastUpdate are    *)
(* left out.  windSpeed is in tenths, battery.level in thousandths.        *)
(*                                                                         *)
(* A call in flight is a record: its id (the order of start), its hook,    *)
(* the function the caller invoked, the await at which it is suspended,    *)
(* the coordinates it fetches for, and for retryBattery the result and the *)
(* snapshot of the initializeBattery it awaited.                           *)
(*                                                                         *)
(* navigator.getBattery() returns the same promise on every call, so every *)
(* battery call sees the same outcome, and the continuations run in the    *)
(* order in which the calls awaited.                                       *)
(***************************************************************************)
\* Number of acquisition calls started in one behaviour.
MaxCalls == 3

outsideHooks == <<remoteVars, chartVars, timerVars, advisoryVars>>

\* A render that keeps the memoized value although an input has changed.
UseMemoStale == healthData' = healthData

\* useMemo of healthData: recomputed in the render that sees the new inputs.
UseMemo ==
  healthData' = generateRecommendations(batteryData', weatherData',
                                        deviceTemp', performanceData', clock')

\* The render after a step of the acquisition hooks.
HealthMemo ==
  /\ UNCHANGED <<deviceTemp, performanceData, clock>>
  /\ UseMemo

\* Math.round(battery.level * 100), battery.level given in thousandths.
MathRound(thousandths) == (thousandths + 5) \div 10

BatteryManagers == {[level |-> 155, charging |-> TRUE], [level |-> 850, charging |-> FALSE]}

UpdateBatteryData(bm) == [level |-> MathRound(bm.level), charging |-> bm.charging]

\* The else branch of initializeBattery; ch is Math.random() > 0.5.
SimulatedBattery(ch) == [level |-> 85, charging |-> ch, simulated |-> TRUE]

\* The catch branch of initializeBattery.
ErrorBattery == [level |-> 75, charging |-> FALSE, simulated |-> TRUE]

FallbackWeather ==
  [temperature |-> 225, humidity |-> 65, windSpeed |-> 32, weatherCode |-> 1,
   uvIndex |-> 3, fallback |-> TRUE]

\* response.data.current of the forecast service; uv_index may be missing.
Forecasts ==
  {[temperature_2m |-> 301, relative_humidity_2m |-> 40, wind_speed_10m |-> 51,
    weather_code |-> 0, uv_index |-> 5],
   [temperature_2m |-> 99, relative_humidity_2m |-> 80, wind_speed_10m |-> 120,
    weather_code |-> 3]}

WeatherInfo(cur) ==
  [temperature |-> cur.temperature_2m,
   humidity |-> cur.relative_humidity_2m,
   windSpeed |-> cur.wind_speed_10m,
   weatherCode |-> cur.weather_code,
   uvIndex |-> IF HasProp(cur, "uv_index") /\ cur.uv_index # 0 THEN cur.uv_index ELSE 0]

Positions == {[latitude |-> 52, longitude |-> 13], [latitude |-> 48, longitude |-> 2]}

MsgEnabled == "Monitoring permissions enabled successfully"

MsgLimited == "Running in limited mode - Enable permissions for full functionality"

MsgSomeFailed == "Some permissions could not be enabled - running in limited mode"

MsgTest == "Test notification - System is working correctly!"

\* Mutant: the list keeps a hundred old entries.
AddNotificationKeepsHundred(prev, n, now) ==
  <<[type |-> n.type, message |-> n.message, timestamp |-> now]>>
    \o SubSeq(prev, 1, Min(Len(prev), 100))

\* addNotification at time now: [notificationWithId, ...prev.slice(0, 99)].
AddNotification(prev, n, now) ==
  <<[type |-> n.type, message |-> n.message, timestamp |-> now]>>
    \o SubSeq(prev, 1, Min(Len(prev), 99))

\* notifications.filter(n => n.type === 'critical' || n.type === 'warning').length
NotificationCount(list) ==
  Cardinality({i \in 1..Len(list) : list[i].type \in {"critical", "warning"}})

\* Mutant: an exception of initializeBattery reaches the caller.
InitializeBatteryOutcomesRethrows == {"fulfilled", "rejected"}

\* How the promise of initializeBattery can settle: its whole body is in a
\* try block whose catch block returns a result object.
InitializeBatteryOutcomes == {"fulfilled"}

\* The same for getLocationAndWeather.
GetLocationAndWeatherOutcomes == {"fulfilled"}

\* Promise.all of the two promises.
PromiseAll(b, w) == IF b = "rejected" \/ w = "rejected" THEN "rejected" ELSE "fulfilled"

Call(id, hook, fn, pc, coords) ==
  [id |-> id, hook |-> hook, fn |-> fn, pc |-> pc, coords |-> coords,
   ok |-> FALSE, wrote |-> NULL]

Pending(hook) == {c \in calls : c.hook = hook}

\* What a returned call leaves behind: its result, the status it wrote last
\* and the snapshot it wrote (NULL if it wrote none).
CallResult(c, success, status, data) ==
  [id |-> c.id, hook |-> c.hook, fn |-> c.fn, success |-> success,
   status |-> status, data |-> data]

\* initializeBattery up to its first await or, without the Battery API, to
\* its return; called directly or from retryBattery, which has set the
\* status to 'retrying' before and awaits the result.
InitializeBatteryStart(id, fn, ch) ==
  IF batterySupported
  THEN [calls |-> {Call(id, "battery", fn, "getBattery", NULL)},
        status |-> IF fn = "retryBattery" THEN "retrying" ELSE batteryStatus,
        data |-> batteryData,
        returned |-> NULL]
  ELSE [calls |-> IF fn = "retryBattery"
                  THEN {[Call(id, "battery", fn, "resume", NULL)
                           EXCEPT !.wrote = SimulatedBattery(ch)]}
                  ELSE {},
        status |-> "disconnected",
        data |-> SimulatedBattery(ch),
        returned |-> IF fn = "retryBattery"
                     THEN NULL
                     ELSE CallResult(Call(id, "battery", fn, "done", NULL), FALSE,
                                     "disconnected", SimulatedBattery(ch))]

FetchWeatherStartKeepsStatus(id, fn, coords) ==
  [calls |-> {Call(id, "weather", fn, "fetch", coords)},
   status |-> weatherStatus]

\* fetchWeather up to its await.
FetchWeatherStart(id, fn, coords) ==
  [calls |-> {Call(id, "weather", fn, "fetch", coords)},
   status |-> "retrying"]

\* getLocationAndWeather up to its await.
GetLocationAndWeatherStart(id, fn) ==
  [calls |-> {Call(id, "weather", fn, "geo", NULL)},
   status |-> weatherStatus]

RetryWeatherStartAlwaysLocates(id) == GetLocationAndWeatherStart(id, "retryWeather")

RetryWeatherStart(id) ==
  IF location # NULL
  THEN FetchWeatherStart(id, "retryWeather", location)
  ELSE GetLocationAndWeatherStart(id, "retryWeather")

\* Hooks that get a second call in flight when calls of these hooks start.
Overlaps(hooks) == overlapped \cup {h \in hooks : Pending(h) # {}}

\* A call of the hook starts; r is its result if it has returned at once,
\* NULL otherwise.
Started(done, hook, id, r) == [done EXCEPT ![hook] = [id |-> id, result |-> r]]

\* A call returns: it is the last to return, and if it is the call of its
\* hook that was started last, its result is recorded as that.
Finished(c, r) ==
  /\ lastDone' = [lastDone EXCEPT ![c.hook] = r]
  /\ newestDone' = IF newestDone[c.hook].id = c.id
                   THEN [newestDone EXCEPT ![c.hook].result = r]
                   ELSE newestDone

\* The loading sequence ends: the loading screen goes, the modal shows.
FinishLoading ==
  /\ isLoading
  /\ isLoading' = FALSE
  /\ showPermissionModal' = TRUE
  /\ UNCHANGED <<batteryStatus, weatherStatus, location, retryCount,
                 batterySupported, batteryPromise, battery, listening,
                 calls, nextId, notifications, allowPc, allowIds,
                 lastDone, newestDone, overlapped>>
  /\ UNCHANGED <<batteryData, weatherData>>
  /\ HealthMemo
  /\ UNCHANGED outsideHooks
  /\ lastOp' = "finishLoading"

\* Both permission handlers start initializeBattery and getLocationAndWeather.
StartBoth(ch) ==
  LET b == InitializeBatteryStart(nextId, "initializeBattery", ch)
      w == GetLocationAndWeatherStart(nextId + 1, "getLocationAndWeather")
  IN /\ nextId + 1 <= MaxCalls
     /\ showPermissionModal' = FALSE
     /\ calls' = calls \cup b.calls \cup w.calls
     /\ batteryStatus' = b.status
     /\ batteryData' = b.data
     /\ weatherStatus' = w.status
     /\ weatherData' = weatherData
     /\ lastDone' = IF b.returned # NULL
                    THEN [lastDone EXCEPT !["battery"] = b.returned]
                    ELSE lastDone
     /\ newestDone' = Started(Started(newestDone, "battery", nextId, b.returned),
                                "weather", nextId + 1, NULL)
     /\ overlapped' = Overlaps({"battery", "weather"})
     /\ nextId' = nextId + 2
     /\ UNCHANGED <<location, retryCount, batterySupported, batteryPromise,
                    battery, listening, isLoading>>
     /\ HealthMemo
     /\ UNCHANGED outsideHooks

\* handleAllowPermissions up to its await of Promise.all.
HandleAllowPermissions ==
  /\ showPermissionModal
  /\ \E ch \in BOOLEAN : StartBoth(ch)
  /\ allowPc' = "awaiting"
  /\ allowIds' = {nextId, nextId + 1}
  /\ UNCHANGED notifications
  /\ lastOp' = "handleAllowPermissions"

\* handleAllowPermissions after Promise.all: the try block goes on when both
\* promises are fulfilled, the catch block runs when one is rejected.
AllowContinue ==
  /\ allowPc = "awaiting"
  /\ \A c \in calls : c.id \notin allowIds
  /\ allowPc' = "done"
  /\ \E b \in InitializeBatteryOutcomes, w \in GetLocationAndWeatherOutcomes :
       notifications' =
         IF PromiseAll(b, w) = "fulfilled"
         THEN AddNotification(notifications, [type |-> "info", message |-> MsgEnabled],
                              clock)
         ELSE AddNotification(notifications, [type |-> "warning", message |-> MsgSomeFailed],
                              clock)
  /\ UNCHANGED <<batteryStatus, weatherStatus, location, retryCount,
                 batterySupported, batteryPromise, battery, listening,
                 calls, nextId, isLoading, showPermissionModal, allowIds,
                 lastDone, newestDone, overlapped>>
  /\ UNCHANGED <<batteryData, weatherData>>
  /\ HealthMemo
  /\ UNCHANGED outsideHooks
  /\ lastOp' = "allowContinue"

HandleDenyPermissions ==
  /\ showPermissionModal
  /\ \E ch \in BOOLEAN : StartBoth(ch)
  /\ notifications' = AddNotification(notifications, [type |-> "info", message |-> MsgLimited],
                                      clock)
  /\ UNCHANGED <<allowPc, allowIds>>
  /\ lastOp' = "handleDenyPermissions"

\* The Retry button of the battery widget, rendered while batteryData is
\* null and reachable once the loading screen and the modal are gone.
RetryBattery ==
  /\ ~isLoading
  /\ ~showPermissionModal
  /\ batteryData = NULL
  /\ nextId <= MaxCalls
  /\ \E ch \in BOOLEAN :
       LET b == InitializeBatteryStart(nextId, "retryBattery", ch)
       IN /\ calls' = calls \cup b.calls
          /\ batteryStatus' = b.status
          /\ batteryData' = b.data
          /\ newestDone' = Started(newestDone, "battery", nextId, b.returned)
  /\ retryCount' = retryCount + 1
  /\ overlapped' = Overlaps({"battery"})
  /\ nextId' = nextId + 1
  /\ UNCHANGED <<weatherStatus, location, batterySupported, batteryPromise,
                 battery, listening, isLoading, showPermissionModal,
                 notifications, allowPc, allowIds, lastDone>>
  /\ UNCHANGED weatherData
  /\ HealthMemo
  /\ UNCHANGED outsideHooks
  /\ lastOp' = "retryBattery"

\* The Retry button of the weather widget, rendered while weatherData is
\* null and reachable once the loading screen and the modal are gone.
RetryWeather ==
  /\ ~isLoading
  /\ ~showPermissionModal
  /\ weatherData = NULL
  /\ nextId <= MaxCalls
  /\ LET w == RetryWeatherStart(nextId)
     IN /\ calls' = calls \cup w.calls
        /\ weatherStatus' = w.status
  /\ newestDone' = Started(newestDone, "weather", nextId, NULL)
  /\ overlapped' = Overlaps({"weather"})
  /\ nextId' = nextId + 1
  /\ UNCHANGED <<batteryStatus, location, retryCount, batterySupported,
                 batteryPromise, battery, listening, isLoading,
                 showPermissionModal, notifications, allowPc, allowIds,
                 lastDone>>
  /\ UNCHANGED <<batteryData, weatherData>>
  /\ HealthMemo
  /\ UNCHANGED outsideHooks
  /\ lastOp' = "retryWeather"

\* Continuations of battery calls run in the order they were queued: those
\* awaiting getBattery in the order of the calls, then those of retryBattery.
NextInLine(c) ==
  /\ c \in calls
  /\ c.hook = "battery"
  /\ \A d \in Pending("battery") :
       /\ d.pc = c.pc => d.id >= c.id
       /\ c.pc = "resume" => d.pc # "getBattery"

\* A battery call leaves initializeBattery with the given result: called
\* directly it has returned, called from retryBattery that one resumes next.
LeaveInitializeBattery(c, success, status, data) ==
  IF c.fn = "retryBattery"
  THEN /\ calls' = (calls \ {c}) \cup {[c EXCEPT !.pc = "resume", !.ok = success,
                                                   !.wrote = data]}
       /\ UNCHANGED <<lastDone, newestDone>>
  ELSE /\ calls' = calls \ {c}
       /\ Finished(c, CallResult(c, success, status, data))

hookRest == <<weatherStatus, location, retryCount, batterySupported, nextId,
              isLoading, showPermissionModal, notifications, allowPc, allowIds,
              overlapped>>

\* await navigator.getBattery() resolves: listeners, first snapshot, status.
GetBatteryResolves ==
  /\ batteryPromise \in {"pending", "resolved"}
  /\ \E c \in calls :
       /\ c.pc = "getBattery"
       /\ NextInLine(c)
       /\ LeaveInitializeBattery(c, TRUE, "connected", UpdateBatteryData(battery))
  /\ batteryPromise' = "resolved"
  /\ listening' = TRUE
  /\ batteryData' = UpdateBatteryData(battery)
  /\ batteryStatus' = "connected"
  /\ UNCHANGED <<hookRest, battery>>
  /\ UNCHANGED weatherData
  /\ HealthMemo
  /\ UNCHANGED outsideHooks
  /\ lastOp' = "getBatteryResolves"

\* The catch block of initializeBattery: the status and the snapshot it sets.
BatteryCatchKeepsStatus == [status |-> batteryStatus, data |-> ErrorBattery]

BatteryCatch == [status |-> "disconnected", data |-> ErrorBattery]

\* await navigator.getBattery() rejects.
GetBatteryRejects ==
  /\ batteryPromise \in {"pending", "rejected"}
  /\ \E c \in calls :
       /\ c.pc = "getBattery"
       /\ NextInLine(c)
       /\ LeaveInitializeBattery(c, FALSE, BatteryCatch.status, BatteryCatch.data)
  /\ batteryPromise' = "rejected"
  /\ batteryData' = BatteryCatch.data
  /\ batteryStatus' = BatteryCatch.status
  /\ UNCHANGED <<hookRest, battery, listening>>
  /\ UNCHANGED weatherData
  /\ HealthMemo
  /\ UNCHANGED outsideHooks
  /\ lastOp' = "getBatteryRejects"

\* retryBattery after its await of initializeBattery.
RetryBatteryResume ==
  /\ \E c \in calls :
       /\ c.pc = "resume"
       /\ NextInLine(c)
       /\ batteryStatus' = IF ~c.ok THEN "disconnected" ELSE batteryStatus
       /\ calls' = calls \ {c}
       /\ Finished(c, CallResult(c, c.ok, IF c.ok THEN "connected" ELSE "disconnected",
                                  c.wrote))
  /\ UNCHANGED <<hookRest, batteryPromise, battery, listening>>
  /\ UNCHANGED <<batteryData, weatherData>>
  /\ HealthMemo
  /\ UNCHANGED outsideHooks
  /\ lastOp' = "retryBatteryResume"

\* The BatteryManager changes and the registered listener takes a new
\* snapshot.
BatteryEvent ==
  /\ listening
  /\ \E bm \in BatteryManagers \ {battery} : battery' = bm
  /\ batteryData' = UpdateBatteryData(battery')
  /\ UNCHANGED <<hookRest, batteryStatus, batteryPromise, listening, calls,
                 lastDone, newestDone>>
  /\ UNCHANGED weatherData
  /\ HealthMemo
  /\ UNCHANGED outsideHooks
  /\ lastOp' = "batteryEvent"

weatherRest == <<batteryStatus, retryCount, batterySupported, batteryPromise,
                 battery, listening, nextId, isLoading, showPermissionModal,
                 notifications, allowPc, allowIds, overlapped>>

\* getCurrentPosition succeeds: the location is stored and fetchWeather runs
\* up to its await.
GeoSucceeds ==
  /\ \E c \in calls, pos \in Positions :
       /\ c.pc = "geo"
       /\ location' = pos
       /\ calls' = (calls \ {c}) \cup FetchWeatherStart(c.id, c.fn, pos).calls
       /\ weatherStatus' = FetchWeatherStart(c.id, c.fn, pos).status
  /\ UNCHANGED <<weatherRest, lastDone, newestDone>>
  /\ UNCHANGED <<batteryData, weatherData>>
  /\ HealthMemo
  /\ UNCHANGED outsideHooks
  /\ lastOp' = "geoSucceeds"

\* Mutant: the catch block of getLocationAndWeather leaves the status alone.
GeoFailsKeepsStatus ==
  /\ \E c \in calls :
       /\ c.pc = "geo"
       /\ calls' = calls \ {c}
       /\ Finished(c, CallResult(c, FALSE, weatherStatus, FallbackWeather))
  /\ weatherStatus' = weatherStatus
  /\ weatherData' = FallbackWeather
  /\ UNCHANGED <<weatherRest, location>>
  /\ UNCHANGED batteryData
  /\ HealthMemo
  /\ UNCHANGED outsideHooks
  /\ lastOp' = "geoFails"

\* getCurrentPosition fails (denied, unavailable, timed out, or there is no
\* navigator.geolocation): the catch block of getLocationAndWeather.
GeoFails ==
  /\ \E c \in calls :
       /\ c.pc = "geo"
       /\ calls' = calls \ {c}
       /\ Finished(c, CallResult(c, FALSE, "disconnected", FallbackWeather))
  /\ weatherStatus' = "disconnected"
  /\ weatherData' = FallbackWeather
  /\ UNCHANGED <<weatherRest, location>>
  /\ UNCHANGED batteryData
  /\ HealthMemo
  /\ UNCHANGED outsideHooks
  /\ lastOp' = "geoFails"

FetchSucceedsSuperseded ==
  /\ \E c \in calls, cur \in Forecasts :
       /\ c.pc = "fetch"
       /\ calls' = calls \ {c}
       /\ weatherData' = IF newestDone["weather"].id = c.id
                         THEN WeatherInfo(cur)
                         ELSE weatherData
       /\ weatherStatus' = IF newestDone["weather"].id = c.id
                           THEN "connected"
                           ELSE weatherStatus
       /\ Finished(c, CallResult(c, TRUE, "connected", WeatherInfo(cur)))
  /\ UNCHANGED <<weatherRest, location>>
  /\ UNCHANGED batteryData
  /\ HealthMemo
  /\ UNCHANGED outsideHooks
  /\ lastOp' = "fetchSucceeds"

\* axios.get resolves with a forecast.
FetchSucceeds ==
  /\ \E c \in calls, cur \in Forecasts :
       /\ c.pc = "fetch"
       /\ calls' = calls \ {c}
       /\ weatherData' = WeatherInfo(cur)
       /\ Finished(c, CallResult(c, TRUE, "connected", WeatherInfo(cur)))
  /\ weatherStatus' = "connected"
  /\ UNCHANGED <<weatherRest, location>>
  /\ UNCHANGED batteryData
  /\ HealthMemo
  /\ UNCHANGED outsideHooks
  /\ lastOp' = "fetchSucceeds"

\* Mutant: the catch block of fetchWeather sets no status.
FetchFailsKeepsStatus ==
  /\ \E c \in calls :
       /\ c.pc = "fetch"
       /\ calls' = calls \ {c}
       /\ Finished(c, CallResult(c, FALSE, weatherStatus, NULL))
  /\ weatherStatus' = weatherStatus
  /\ UNCHANGED <<weatherRest, location>>
  /\ UNCHANGED <<batteryData, weatherData>>
  /\ HealthMemo
  /\ UNCHANGED outsideHooks
  /\ lastOp' = "fetchFails"

\* axios.get rejects (network error, 10 s timeout) or the response has no
\* data.current: the catch block of fetchWeather.
FetchFails ==
  /\ \E c \in calls :
       /\ c.pc = "fetch"
       /\ calls' = calls \ {c}
       /\ Finished(c, CallResult(c, FALSE, "disconnected", NULL))
  /\ weatherStatus' = "disconnected"
  /\ UNCHANGED <<weatherRest, location>>
  /\ UNCHANGED <<batteryData, weatherData>>
  /\ HealthMemo
  /\ UNCHANGED outsideHooks
  /\ lastOp' = "fetchFails"

\* The app as mounted, on a browser with or without the Battery API.
InitHooks ==
  /\ batteryData = NULL
  /\ weatherData = NULL
  /\ deviceTemp = 275
  /\ performanceData = EmptyObject
  /\ healthData = generateRecommendations(NULL, NULL, 275, EmptyObject, 0)
  /\ clock = 0
  /\ lastOp = "none"
  /\ RemoteQuiet
  /\ ChartQuiet
  /\ TimersQuiet
  /\ AdvisoryQuiet
  /\ batteryStatus = "disconnected"
  /\ weatherStatus = "disconnected"
  /\ location = NULL
  /\ retryCount = 0
  /\ batterySupported \in BOOLEAN
  /\ batteryPromise = "pending"
  /\ battery \in BatteryManagers
  /\ listening = FALSE
  /\ calls = {}
  /\ nextId = 1
  /\ isLoading = TRUE
  /\ showPermissionModal = FALSE
  /\ notifications = << >>
  /\ allowPc = "idle"
  /\ allowIds = {}
  /\ lastDone = [h \in {"battery", "weather"} |-> NULL]
  /\ newestDone = [h \in {"battery", "weather"} |-> [id |-> 0, result |-> NULL]]
  /\ overlapped = {}

NextHooks ==
  \/ FinishLoading
  \/ HandleAllowPermissions
  \/ AllowContinue
  \/ HandleDenyPermissions
  \/ RetryBattery
  \/ RetryWeather
  \/ GetBatteryResolves
  \/ GetBatteryRejects
  \/ RetryBatteryResume
  \/ BatteryEvent
  \/ GeoSucceeds
  \/ GeoFails
  \/ FetchSucceeds
  \/ FetchFails

SpecHooks == InitHooks /\ [][NextHooks]_vars

\* C13: whenever weather acquisition fails (geolocation fails, or the
\* forecast request fails after geolocation succeeded, on first load or on
\* retry), weatherData is replaced by the fixed fallback and weatherStatus is
\* 'disconnected'.
C13_FallbackOnFailure ==
  [][lastOp' \in {"geoFails", "fetchFails"}
       => weatherData' = FallbackWeather /\ weatherStatus' = "disconnected"]_vars

\* The status changes of the path disconnected -> retrying -> connected|disconnected.
StatusPath ==
  {<<"disconnected", "retrying">>, <<"retrying", "connected">>,
   <<"retrying", "disconnected">>}

\* C14 as stated: every change of batteryStatus and of weatherStatus follows
\* the path disconnected -> retrying -> connected|disconnected (so a status
\* becomes 'connected' only from 'retrying'), on initial acquisition as well
\* as on retry.
C14_Original ==
  [][/\ batteryStatus' # batteryStatus => <<batteryStatus, batteryStatus'>> \in StatusPath
     /\ weatherStatus' # weatherStatus => <<weatherStatus, weatherStatus'>> \in StatusPath]_vars

\* C14, amended: weatherStatus follows the path as long as no two weather
\* calls have been in flight together; batteryStatus becomes 'retrying' only by retryBattery, and
\* without a retryBattery in flight initial acquisition takes it from
\* 'disconnected' directly to 'connected'.
C14_StatusPaths ==
  [][/\ (weatherStatus' # weatherStatus /\ "weather" \notin overlapped')
          => <<weatherStatus, weatherStatus'>> \in StatusPath
     /\ batteryStatus' # batteryStatus
          => <<batteryStatus, batteryStatus'>>
               \in StatusPath \cup {<<"disconnected", "connected">>}
     /\ (batteryStatus' = "retrying" /\ batteryStatus # "retrying")
          => lastOp' = "retryBattery"
     /\ (batteryStatus' = "connected" /\ batteryStatus # "connected")
          => (batteryStatus = "retrying"
                <=> \E c \in Pending("battery") : c.fn = "retryBattery")]_vars

\* Both paths have been taken: the first weather call has connected, and
\* initializeBattery has connected with no retry.
C14_Witness ==
  /\ lastOp = "fetchSucceeds"
  /\ weatherStatus = "connected"
  /\ "weather" \notin overlapped
  /\ lastDone["battery"] # NULL
  /\ lastDone["battery"].fn = "initializeBattery"
  /\ batteryStatus = "connected"
  /\ retryCount = 0

HookStatus(hook) == IF hook = "battery" THEN batteryStatus ELSE weatherStatus

\* The hook holds the snapshot d.  A battery snapshot taken from the
\* BatteryManager is kept current by the listeners, so it is recognised by
\* being live rather than by its values.
HoldsSnapshot(hook, d) ==
  IF hook = "battery" /\ ~HasProp(d, "simulated")
  THEN listening /\ batteryData = UpdateBatteryData(battery)
  ELSE (IF hook = "battery" THEN batteryData ELSE weatherData) = d

\* Two calls of the hook were in flight together and all have returned.
OverlapSettled(hook) ==
  /\ hook \in overlapped
  /\ Pending(hook) = {}
  /\ lastDone[hook] # NULL
  /\ newestDone[hook].result # NULL

\* C16 as stated: when a call is started while an earlier call of the same
\* hook is pending, then after both have returned the hook's status and
\* snapshot are those produced by the call started last, whatever the order
\* of completion.
C16_Original ==
  \A h \in {"battery", "weather"} :
    OverlapSettled(h) =>
      /\ HookStatus(h) = newestDone[h].result.status
      /\ newestDone[h].result.data # NULL => HoldsSnapshot(h, newestDone[h].result.data)

\* C16, amended: last write wins.  After overlapping calls have returned,
\* the status is the one written by the call that returned last, and so is
\* the snapshot if that call wrote one; for the battery hook, whose calls
\* all await the same getBattery promise, that is also the status of the
\* call started last.
C16_LastWriteWins ==
  \A h \in {"battery", "weather"} :
    OverlapSettled(h) =>
      /\ HookStatus(h) = lastDone[h].status
      /\ lastDone[h].data # NULL => HoldsSnapshot(h, lastDone[h].data)
      /\ h = "battery" => HookStatus(h) = newestDone[h].result.status

\* Two weather fetches overlapped, both succeeded, and the one started first
\* returned last with a different forecast.
C16_Witness ==
  /\ OverlapSettled("weather")
  /\ lastDone["weather"].id < newestDone["weather"].id
  /\ lastDone["weather"].success
  /\ newestDone["weather"].result.success
  /\ lastDone["weather"].data # newestDone["weather"].result.data
  /\ weatherData = lastDone["weather"].data

\* The battery call that acted in this step left initializeBattery with
\* success = false: it has returned that, or retryBattery holds it.
InitializeBatteryFailed ==
  \/ /\ lastDone'["battery"] # lastDone["battery"]
     /\ lastDone'["battery"].fn = "initializeBattery"
     /\ ~lastDone'["battery"].success
  \/ \E c \in calls' \ calls : c.pc = "resume" /\ ~c.ok

\* C18: without the Battery API, or when getBattery rejects,
\* initializeBattery returns success = false (it does not throw), having set
\* batteryData to the simulated fallback (level 85 when unsupported; level
\* 75, not charging, when erroring; both flagged simulated) and
\* batteryStatus to 'disconnected'; a retryBattery that fails the same way
\* ends with batteryStatus 'disconnected'.
C18_BatteryFallback ==
  [][/\ (lastOp' \in {"handleAllowPermissions", "handleDenyPermissions"} /\ ~batterySupported)
          => /\ batteryData' \in {SimulatedBattery(ch) : ch \in BOOLEAN}
             /\ batteryData'.level = 85
             /\ batteryData'.simulated
             /\ batteryStatus' = "disconnected"
             /\ InitializeBatteryFailed
     /\ lastOp' = "getBatteryRejects"
          => /\ batteryData' = [level |-> 75, charging |-> FALSE, simulated |-> TRUE]
             /\ batteryStatus' = "disconnected"
             /\ InitializeBatteryFailed
     /\ (lastOp' = "retryBatteryResume" /\ ~lastDone'["battery"].success)
          => /\ batteryStatus' = "disconnected"
             /\ lastDone'["battery"].fn = "retryBattery"]_vars

\* getBattery rejected with a retryBattery in flight, and the retry has
\* returned its failure.
C18_Witness ==
  /\ lastOp = "retryBatteryResume"
  /\ batteryPromise = "rejected"
  /\ lastDone["battery"] # NULL
  /\ lastDone["battery"].fn = "retryBattery"
  /\ ~lastDone["battery"].success
  /\ batteryStatus = "disconnected"
  /\ batteryData = ErrorBattery

\* C19: retryWeather calls the forecast fetch directly with the stored
\* coordinates, making no geolocation request, whenever an earlier
\* geolocation succeeded (which is the one way a location gets stored), and
\* requests the location again otherwise.
C19_RetryReusesLocation ==
  [][/\ lastOp' = "retryWeather"
          => \E c \in calls' \ calls :
               /\ calls' = calls \cup {c}
               /\ c.fn = "retryWeather"
               /\ IF location # NULL
                  THEN c.pc = "fetch" /\ c.coords = location /\ location' = location
                  ELSE c.pc = "geo"
     /\ location' # location => lastOp' = "geoSucceeds"
     /\ lastOp' = "geoSucceeds" => location' \in Positions]_vars

\* retryWeather has just started a fetch for the stored coordinates.
C19_Witness ==
  /\ lastOp = "retryWeather"
  /\ location # NULL
  /\ \E c \in calls : c.fn = "retryWeather" /\ c.pc = "fetch" /\ c.coords = location

(***************************************************************************)
(* The two intervals of ThermoSenseApp.  Time advances in steps of 5       *)
(* seconds.  The sampler's interval is set once (its effect depends on     *)
(* updatePerformance, which never changes).  The simulator's effect        *)
(* depends on weatherData, batteryData and performanceData: a render with  *)
(* a new performanceData leaves the effect to be re-run, and the re-run    *)
(* clears the interval and sets a new one with a callback that closes over *)
(* the new snapshots.  The snapshots of the two hooks are fixed here.      *)
(***************************************************************************)
outsideTimers == <<remoteVars, chartVars, hookVars, advisoryVars>>

\* Math.random() in eightieths: the least value, the middle and the greatest
\* below 1.
RandomSamples == {0, 40, 79}

CpuLoadOfWideRange(r) == (Max(0, Min(200, 2 * r + 30)) + 1) \div 2

\* Math.round(Math.min(100, Math.max(0, r * 40 + 15))) for r in eightieths,
\* computed in halves: r * 40 + 15 is (r + 30) / 2.
CpuLoadOf(r) == (Max(0, Min(200, r + 30)) + 1) \div 2

PerfLoads == {CpuLoadOf(r) : r \in RandomSamples}

\* 5 seconds pass with every callback on time: nothing is due.
Tick ==
  /\ perfDue > 0
  /\ simDue > 0
  /\ ~effectPending
  /\ perfDue' = perfDue - 1
  /\ simDue' = simDue - 1
  /\ UNCHANGED <<effectPending, simClosure>>
  /\ UNCHANGED <<batteryData, weatherData, deviceTemp, performanceData, healthData, clock>>
  /\ UNCHANGED outsideTimers
  /\ lastOp' = "tick"

\* 5 seconds pass while a due callback or effect has not run yet (the main
\* thread is busy or the browser throttles the timers).
Stall ==
  /\ perfDue = 0 \/ simDue = 0 \/ effectPending
  /\ perfDue' = Max(0, perfDue - 1)
  /\ simDue' = Max(0, simDue - 1)
  /\ UNCHANGED <<effectPending, simClosure>>
  /\ UNCHANGED <<batteryData, weatherData, deviceTemp, performanceData, healthData, clock>>
  /\ UNCHANGED outsideTimers
  /\ lastOp' = "stall"

\* The sampler's interval fires: updatePerformance stores a new object, and
\* the render leaves the simulator's effect to be re-run.
PerfFire ==
  /\ perfDue = 0
  /\ perfDue' = PerfPeriod
  /\ \E load \in PerfLoads : performanceData' = [cpuLoad |-> load]
  /\ effectPending' = TRUE
  /\ UNCHANGED <<simDue, simClosure>>
  /\ UNCHANGED <<batteryData, weatherData, deviceTemp, clock>>
  /\ UseMemo
  /\ UNCHANGED outsideTimers
  /\ lastOp' = "perfFire"

\* The simulator's effect is re-run: clearInterval, then setInterval with a
\* callback over the current snapshots.
RerunSimulatorEffect ==
  [due |-> SimPeriod,
   closure |-> [weatherData |-> weatherData, batteryData |-> batteryData,
                performanceData |-> performanceData]]

FlushEffects ==
  /\ effectPending
  /\ effectPending' = FALSE
  /\ simDue' = RerunSimulatorEffect.due
  /\ simClosure' = RerunSimulatorEffect.closure
  /\ UNCHANGED perfDue
  /\ UNCHANGED <<batteryData, weatherData, deviceTemp, performanceData, healthData, clock>>
  /\ UNCHANGED outsideTimers
  /\ lastOp' = "flushEffects"

\* The simulator's interval fires: deviceTemp is recomputed from the
\* snapshots the callback closed over.
SimFire ==
  /\ simDue = 0
  /\ simDue' = SimPeriod
  /\ deviceTemp' \in SimulatedTemps(simClosure.weatherData, simClosure.batteryData,
                                    simClosure.performanceData)
  /\ UNCHANGED <<perfDue, effectPending, simClosure>>
  /\ UNCHANGED <<batteryData, weatherData, performanceData, clock>>
  /\ UseMemo
  /\ UNCHANGED outsideTimers
  /\ lastOp' = "simulate"

\* The app as mounted, holding whatever the two hooks have delivered.
InitTimers ==
  /\ batteryData \in {NULL, ErrorBattery}
  /\ weatherData \in {NULL, FallbackWeather}
  /\ deviceTemp = 275
  /\ performanceData = EmptyObject
  /\ healthData = generateRecommendations(batteryData, weatherData, deviceTemp,
                                          performanceData, 0)
  /\ clock = 0
  /\ lastOp = "none"
  /\ RemoteQuiet
  /\ ChartQuiet
  /\ HooksQuiet
  /\ TimersQuiet
  /\ AdvisoryQuiet

NextTimers ==
  \/ Tick
  \/ Stall
  \/ PerfFire
  \/ FlushEffects
  \/ SimFire

\* The browser runs a callback that is due and React runs a pending effect;
\* time passes.  Nothing obliges a callback to be late.
SpecTimers ==
  /\ InitTimers
  /\ [][NextTimers]_vars
  /\ WF_vars(Tick)
  /\ WF_vars(PerfFire)
  /\ WF_vars(FlushEffects)
  /\ WF_vars(SimFire)

\* C15: while the app runs, with the sampler ticking every 10 s and the
\* simulator every 15 s, deviceTemp is recomputed again and again: from
\* every reachable state a recomputation eventually occurs.
C15_SimulatorKeepsFiring == []<>(lastOp = "simulate")

\* The score of generateRecommendations before Math.max(0, Math.min(100, .)).
UnclampedScore ==
  AfterPerformance(batteryData, weatherData, deviceTemp, performanceData).healthScore

\* C30: for every input the unclamped score is at least 42 and at most 100,
\* so the final clamp to 0..100 leaves it as it is and the returned
\* healthScore is in 42..100.
C30_ClampIsIdentity ==
  Returned =>
    /\ UnclampedScore >= 42
    /\ UnclampedScore <= 100
    /\ healthData.healthScore = UnclampedScore
    /\ ClampScore(UnclampedScore) = UnclampedScore

\* Every penalty at once: the least score.
C30_Witness ==
  /\ Returned
  /\ UnclampedScore = 42
  /\ healthData.healthScore = 42

(***************************************************************************)
(* The running app: the two intervals, and the acquisition hooks           *)
(* delivering new snapshots (a first result, a battery event, a fallback). *)
(* A new batteryData or weatherData is a changed dependency of the         *)
(* simulator's effect, like a new performanceData.                         *)
(***************************************************************************)
\* A charging battery and a hot day, the snapshots that feed the simulator.
DeliveredBattery == {UpdateBatteryData(bm) : bm \in {m \in BatteryManagers : m.charging}}

DeliveredWeather ==
  {WeatherInfo(cur) : cur \in {f \in Forecasts : f.temperature_2m > Deg(30)}}

\* setBatteryData or setWeatherData with a new object, and the render after it.
SnapshotArrives ==
  /\ \/ /\ \E b \in DeliveredBattery \ {batteryData} : batteryData' = b
        /\ UNCHANGED weatherData
     \/ /\ \E w \in DeliveredWeather \ {weatherData} : weatherData' = w
        /\ UNCHANGED batteryData
  /\ effectPending' = TRUE
  /\ UNCHANGED <<perfDue, simDue, simClosure>>
  /\ UNCHANGED <<deviceTemp, performanceData, clock>>
  /\ UseMemo
  /\ UNCHANGED outsideTimers
  /\ lastOp' = "snapshotArrives"

\* The app as mounted: no snapshot yet.
InitApp ==
  /\ InitTimers
  /\ batteryData = NULL
  /\ weatherData = NULL

NextApp ==
  \/ NextTimers
  \/ SnapshotArrives

SpecApp == InitApp /\ [][NextApp]_vars

\* C22: in every state of the running app healthData is
\* generateRecommendations of the current batteryData, weatherData,
\* deviceTemp and performanceData: a change of any of the four is reflected
\* in the same step.
C22_HealthDataCurrent ==
  healthData = generateRecommendations(batteryData, weatherData, deviceTemp,
                                       performanceData, clock)

\* Each of the four inputs has changed since mount, the device temperature
\* last, into the warning band.
C22_Witness ==
  /\ lastOp = "simulate"
  /\ batteryData # NULL
  /\ weatherData # NULL
  /\ HasProp(performanceData, "cpuLoad")
  /\ deviceTemp > Deg(35)
  /\ healthData.alertLevel = "warning"

\* C29: performanceData.cpuLoad is absent (before the first sample) or a
\* whole number in 15..55, so the high-CPU rule (cpuLoad > 80) does not fire
\* and healthData never holds the high-CPU message.
C29_CpuLoadRange ==
  /\ HasProp(performanceData, "cpuLoad")
       => performanceData.cpuLoad >= 15 /\ performanceData.cpuLoad <= 55
  /\ ~HighCpuFires
  /\ ~Contains(healthData.recommendations, MsgHighCpu)

\* The sampler has stored the greatest load it can produce.
C29_Witness ==
  /\ lastOp = "perfFire"
  /\ performanceData = [cpuLoad |-> 55]
  /\ ~Contains(healthData.recommendations, MsgHighCpu)

\* The user chose 'Use Without': only handleDenyPermissions adds this message.
Denied == \E i \in 1..Len(notifications) : notifications[i].message = MsgLimited

\* C24: after handleDenyPermissions the Battery API and geolocation are
\* not queried (no call of either hook is waiting for the browser or the
\* forecast service), and batteryData and weatherData hold only the
\* simulated or fallback snapshots.
C24_DenyUsesFallback ==
  Denied =>
    /\ \A c \in calls : c.pc \notin {"getBattery", "geo", "fetch"}
    /\ ~listening
    /\ batteryData # NULL => HasProp(batteryData, "simulated")
    /\ weatherData # NULL => HasProp(weatherData, "fallback")

\* C25: whenever weatherStatus is 'connected', weatherData is non-null and
\* is a forecast, not the fallback; whenever batteryStatus is 'connected',
\* batteryData is non-null and is the snapshot of the BatteryManager, not a
\* simulated one; after any interleaving of acquisition, overlapping
\* retries, geolocation failures and battery events.
C25_ConnectedMeansLive ==
  /\ weatherStatus = "connected" =>
       /\ weatherData # NULL
       /\ ~HasProp(weatherData, "fallback")
       /\ weatherData \in {WeatherInfo(cur) : cur \in Forecasts}
  /\ batteryStatus = "connected" =>
       /\ batteryData # NULL
       /\ ~HasProp(batteryData, "simulated")
       /\ batteryData = UpdateBatteryData(battery)

\* Both connected after a battery event and after two weather calls were in
\* flight together, of which the one started last has failed.
C25_Witness ==
  /\ lastOp = "batteryEvent"
  /\ batteryStatus = "connected"
  /\ weatherStatus = "connected"
  /\ "weather" \in overlapped
  /\ newestDone["weather"].result # NULL
  /\ ~newestDone["weather"].result.success

\* The hooks with every pending promise settling in the end: the browser
\* answers getBattery and getCurrentPosition, axios.get resolves or rejects
\* (it has a timeout), and a continuation that is queued runs.
SpecHooksLive ==
  /\ InitHooks
  /\ [][NextHooks]_vars
  /\ WF_vars(GetBatteryResolves \/ GetBatteryRejects)
  /\ WF_vars(RetryBatteryResume)
  /\ WF_vars(GeoSucceeds \/ GeoFails)
  /\ WF_vars(FetchSucceeds \/ FetchFails)

Settled(status) == status \in {"connected", "disconnected"}

MaxAdds == 102

\* The longest list addNotification leaves: the new entry and 99 old ones.
MaxNotifications == 100

notificationRest == <<batteryStatus, weatherStatus, location, retryCount,
                      batterySupported, batteryPromise, battery, listening,
                      calls, nextId, isLoading, showPermissionModal, allowPc,
                      allowIds, lastDone, newestDone, overlapped>>

\* handleTestNotification
HandleTestNotification ==
  /\ clock < MaxAdds
  /\ clock' = clock + 1
  /\ notifications' = AddNotification(notifications, [type |-> "info", message |-> MsgTest],
                                      clock')
  /\ UNCHANGED <<batteryData, weatherData, deviceTemp, performanceData, healthData>>
  /\ UNCHANGED <<notificationRest, remoteVars, chartVars, timerVars, advisoryVars>>
  /\ lastOp' = "handleTestNotification"

\* onClearAll: setNotifications([])
ClearAll ==
  /\ notifications' = << >>
  /\ UNCHANGED <<batteryData, weatherData, deviceTemp, performanceData, healthData,
                 clock>>
  /\ UNCHANGED <<notificationRest, remoteVars, chartVars, timerVars, advisoryVars>>
  /\ lastOp' = "clearAll"

InitNotifications ==
  /\ EngineQuiet
  /\ lastOp = "none"
  /\ RemoteQuiet
  /\ ChartQuiet
  /\ HooksQuiet
  /\ TimersQuiet
  /\ AdvisoryQuiet

NextNotifications ==
  \/ HandleTestNotification
  \/ ClearAll

SpecNotifications == InitNotifications /\ [][NextNotifications]_vars

\* Every entry is older than the entries before it.
NewestFirst ==
  \A i \in 1..Len(notifications) : \A j \in 1..Len(notifications) :
    i < j => notifications[i].timestamp > notifications[j].timestamp

\* The entry with the smallest timestamp is the last one.
OldestIsLast(list) ==
  \A i \in 1..Len(list) : list[i].timestamp >= list[Len(list)].timestamp

\* C28: the list holds at most 100 entries, newest first; an added
\* notification becomes the first entry, all others keep their order, and
\* adding to a full list drops exactly the oldest entry; Clear All leaves
\* the list empty.
C28_NotificationList ==
  /\ [](Len(notifications) <= MaxNotifications /\ NewestFirst)
  /\ [][lastOp' = "handleTestNotification" =>
          /\ notifications'[1].timestamp = clock'
          /\ IF Len(notifications) = MaxNotifications
             THEN /\ Len(notifications') = MaxNotifications
                  /\ Tail(notifications')
                       = SubSeq(notifications, 1, MaxNotifications - 1)
                  /\ OldestIsLast(notifications)
             ELSE Tail(notifications') = notifications]_vars
  /\ [][lastOp' = "clearAll" => notifications' = << >>]_vars

\* A test alert was added to a full list: the first alert is gone.
C28_Witness ==
  /\ lastOp = "handleTestNotification"
  /\ Len(notifications) = MaxNotifications
  /\ notifications[1].timestamp = MaxNotifications + 1
  /\ notifications[MaxNotifications].timestamp = 2

(***************************************************************************)
(* AIAdvisory: the custom scenario form and handleCustomAnalysis.  A form  *)
(* field holds the text typed; parseFloat and parseInt are given on the    *)
(* sample texts, a number being [num |-> tenths] and NaN the value NaN.    *)
(* A recommendation is a sequence of string pieces, as it is built by +=.  *)
(***************************************************************************)
outsideAdvisory == <<engineVars, remoteVars, chartVars, hookVars, timerVars>>

TempTexts == {"", "20", "30", "30.1", "35", "35.1", "40", "40.1", "60"}

AmbientTexts == {"", "22.5"}

LevelTexts == {"", "15", "80"}

UsageOptions == {"", "idle", "light", "moderate", "heavy", "gaming", "charging"}

ParseFloat(text) ==
  CASE text = "" -> NaN
    [] text = "20" -> [num |-> 200]
    [] text = "30" -> [num |-> 300]
    [] text = "30.1" -> [num |-> 301]
    [] text = "35" -> [num |-> 350]
    [] text = "35.1" -> [num |-> 351]
    [] text = "40" -> [num |-> 400]
    [] text = "40.1" -> [num |-> 401]
    [] text = "60" -> [num |-> 600]

\* x > n in JavaScript: false when x is NaN.
NumGt(x, n) == ~IsNaN(x) /\ x.num > n

AdviceCritical == "CRITICAL: This temperature level poses immediate risk!"

AdviceWarning == "WARNING: Device is running hot and needs attention."

AdviceAcceptable == "Temperature levels are acceptable for normal use."

AdviceHeavyUsage == " Heavy usage increases thermal stress."

\* The if / else if / else on deviceTemp.
TemperatureTier(t) ==
  IF NumGt(t, Deg(40))
  THEN [riskLevel |-> "high",
        recommendation |-> <<AdviceCritical>>,
        actionItems |-> <<"Stop all intensive tasks immediately",
                          "Power down device if possible",
                          "Move to cool, ventilated area">>]
  ELSE IF NumGt(t, Deg(35))
       THEN [riskLevel |-> "medium",
             recommendation |-> <<AdviceWarning>>,
             actionItems |-> <<"Reduce intensive applications",
                               "Improve ventilation",
                               "Avoid charging while hot">>]
       ELSE [riskLevel |-> "low",
             recommendation |-> <<AdviceAcceptable>>,
             actionItems |-> <<"Continue normal usage", "Monitor periodically">>]

UsageCheckAbove35(r, usage, t) ==
  IF usage = "gaming" /\ NumGt(t, Deg(35))
  THEN [r EXCEPT !.recommendation = Append(@, AdviceHeavyUsage),
                 !.actionItems = Append(@, "Consider reducing graphics settings")]
  ELSE r

\* if (usage === 'gaming' && deviceTemp > 30)
UsageCheck(r, usage, t) ==
  IF usage = "gaming" /\ NumGt(t, Deg(30))
  THEN [r EXCEPT !.recommendation = Append(@, AdviceHeavyUsage),
                 !.actionItems = Append(@, "Consider reducing graphics settings")]
  ELSE r

Impact(riskLevel) ==
  IF riskLevel = "high" THEN "High risk of permanent damage"
  ELSE IF riskLevel = "medium" THEN "Moderate impact on battery health"
       ELSE "Minimal impact on battery health"

\* The object passed to setCustomResult.
CustomResult(form) ==
  LET t == ParseFloat(form.deviceTemp)
      r == UsageCheck(TemperatureTier(t), form.usage, t)
  IN [riskLevel |-> r.riskLevel,
      recommendation |-> r.recommendation,
      actionItems |-> r.actionItems,
      impact |-> Impact(r.riskLevel)]

\* onChange of one of the four inputs.
ChangeField ==
  /\ \/ \E v \in TempTexts : customAnalysis' = [customAnalysis EXCEPT !.deviceTemp = v]
     \/ \E v \in AmbientTexts : customAnalysis' = [customAnalysis EXCEPT !.ambientTemp = v]
     \/ \E v \in LevelTexts : customAnalysis' = [customAnalysis EXCEPT !.batteryLevel = v]
     \/ \E v \in UsageOptions : customAnalysis' = [customAnalysis EXCEPT !.usage = v]
  /\ UNCHANGED customResult
  /\ UNCHANGED outsideAdvisory
  /\ lastOp' = "changeField"

\* The inputs are all required: the browser submits no form with an empty one.
FormValid ==
  /\ customAnalysis.deviceTemp # ""
  /\ customAnalysis.ambientTemp # ""
  /\ customAnalysis.batteryLevel # ""
  /\ customAnalysis.usage # ""

\* The form is submitted.
HandleCustomAnalysis ==
  /\ FormValid
  /\ customResult' = CustomResult(customAnalysis)
  /\ UNCHANGED customAnalysis
  /\ UNCHANGED outsideAdvisory
  /\ lastOp' = "handleCustomAnalysis"

InitAdvisory ==
  /\ EngineQuiet
  /\ lastOp = "none"
  /\ RemoteQuiet
  /\ ChartQuiet
  /\ HooksQuiet
  /\ TimersQuiet
  /\ AdvisoryQuiet

NextAdvisory ==
  \/ ChangeField
  \/ HandleCustomAnalysis

SpecAdvisory == InitAdvisory /\ [][NextAdvisory]_vars

\* The device temperature of the form, in tenths; NaN counts as no number.
FormTemp == ParseFloat(customAnalysis.deviceTemp)

\* The number of action items of a risk level.
TierItems(riskLevel) == IF riskLevel = "low" THEN 2 ELSE 3

\* C21: riskLevel is 'high' iff deviceTemp > 40, 'medium' iff
\* 35 < deviceTemp <= 40 and 'low' otherwise; with usage 'gaming' and
\* deviceTemp > 30 exactly one action item is appended and the
\* recommendation is extended, riskLevel and impact staying those of the
\* temperature tier; otherwise nothing is added.
C21_ScenarioTiers ==
  [][lastOp' = "handleCustomAnalysis" =>
       LET r == customResult'
           gaming == customAnalysis.usage = "gaming" /\ NumGt(FormTemp, Deg(30))
       IN /\ r.riskLevel = "high" <=> NumGt(FormTemp, Deg(40))
          /\ r.riskLevel = "medium" <=> (NumGt(FormTemp, Deg(35)) /\ ~NumGt(FormTemp, Deg(40)))
          /\ r.riskLevel = "low" <=> ~NumGt(FormTemp, Deg(35))
          /\ r.impact = Impact(r.riskLevel)
          /\ r.riskLevel = TemperatureTier(FormTemp).riskLevel
          /\ Len(r.actionItems) = TierItems(r.riskLevel) + BoolToNat(gaming)
          /\ Len(r.recommendation) = 1 + BoolToNat(gaming)
          /\ SubSeq(r.actionItems, 1, TierItems(r.riskLevel))
               = TemperatureTier(FormTemp).actionItems
          /\ gaming => r.recommendation[2] = AdviceHeavyUsage]_vars

\* Gaming at 30.1 degrees: the low tier with one item more.
C21_Witness ==
  /\ lastOp = "handleCustomAnalysis"
  /\ customAnalysis.usage = "gaming"
  /\ customAnalysis.deviceTemp = "30.1"
  /\ customResult.riskLevel = "low"
  /\ Len(customResult.actionItems) = 3
====
